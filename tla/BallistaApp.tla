---------------------------- MODULE BallistaApp -----------------------------
(***************************************************************************)
(* BallistaApp::run of crates/pipeline/src/ballista_app.rs: the scheduler  *)
(* as a child process, the executor as a future beside a watcher that asks *)
(* every SCHEDULER_POLL_INTERVAL whether the child still runs.             *)
(*                                                                         *)
(* The child process and the executor are external: either may end at any  *)
(* time, or never.  An ended child stays until its parent waits for it,    *)
(* unless the process was started with SIGCHLD ignored: then it is gone at *)
(* once and asking for it is an error.  A killed child ends.               *)
(***************************************************************************)
EXTENDS Naturals

VARIABLES
    app,        \* where run is
    scheduler,  \* the child process
    autoReaped, \* SIGCHLD is ignored
    executor,   \* the future: running, or its result
    timer,      \* the watcher's sleep: off, armed or due
    verdict     \* what run returns

appVars == <<app, scheduler, autoReaped, executor, timer, verdict>>

Ended == IF autoReaped THEN "gone" ELSE "exited"

AppIdle ==
    /\ app = "none" /\ scheduler = "unborn" /\ autoReaped = FALSE
    /\ executor = "none" /\ timer = "off" /\ verdict = "none"

AppInit ==
    /\ app = "start" /\ scheduler = "unborn" /\ autoReaped \in BOOLEAN
    /\ executor = "none" /\ timer = "off" /\ verdict = "none"

-----------------------------------------------------------------------------
(* The environment *)

SchedulerExits ==
    /\ scheduler = "running"
    /\ scheduler' = Ended
    /\ UNCHANGED <<app, autoReaped, executor, timer, verdict>>

(* A child that was sent the signal ends. *)
SchedulerDies ==
    /\ scheduler = "killed"
    /\ scheduler' = Ended
    /\ UNCHANGED <<app, autoReaped, executor, timer, verdict>>

ExecutorEnds ==
    /\ app = "select" /\ executor = "running"
    /\ executor' \in {"ok", "err"}
    /\ UNCHANGED <<app, scheduler, autoReaped, timer, verdict>>

TimerFires ==
    /\ timer = "armed" /\ app = "select"
    /\ timer' = "due"
    /\ UNCHANGED <<app, scheduler, autoReaped, executor, verdict>>

(* The executor panics, or the caller drops the future: nothing kills the  *)
(* child, which is no longer anybody's.                                    *)
Unwind ==
    /\ app = "select"
    /\ app' = "unwound" /\ timer' = "off"
    /\ UNCHANGED <<scheduler, autoReaped, executor, verdict>>

-----------------------------------------------------------------------------
(* run *)

(* The watcher asks at once when it is first polled. *)
Spawn ==
    /\ app = "start"
    /\ app' = "select" /\ scheduler' = "running" /\ executor' = "running"
    /\ timer' = "due"
    /\ UNCHANGED <<autoReaped, verdict>>

SpawnFails ==
    /\ app = "start"
    /\ app' = "returned" /\ verdict' = "not_started"
    /\ UNCHANGED <<scheduler, autoReaped, executor, timer>>

(* select! takes the first of its branches that is ready, in any order. *)
TakeExecutor ==
    /\ app = "select" /\ executor \in {"ok", "err"}
    /\ app' = "kill" /\ verdict' = executor /\ timer' = "off"
    /\ UNCHANGED <<scheduler, autoReaped, executor>>

(* A watcher that asks once and never again. *)
AskOnce ==
    /\ scheduler = "running"
    /\ timer' = "off"
    /\ UNCHANGED <<app, scheduler, verdict>>

(* The answer of try_wait when the sleep is over: the child still runs,    *)
Sleep ==
    /\ scheduler = "running"
    /\ timer' = "armed"
    /\ UNCHANGED <<app, scheduler, verdict>>

(* has ended and is now waited for,                                        *)
Exited ==
    /\ scheduler = "exited"
    /\ scheduler' = "reaped"
    /\ app' = "kill" /\ verdict' = "scheduler_exited" /\ timer' = "off"

(* or is not to be found.                                                  *)
PollFails ==
    /\ scheduler = "gone"
    /\ app' = "kill" /\ verdict' = "poll_failed" /\ timer' = "off"
    /\ UNCHANGED scheduler

WatchScheduler ==
    /\ app = "select" /\ timer = "due"
    /\ Sleep \/ Exited \/ PollFails
    /\ UNCHANGED <<autoReaped, executor>>

(* A run that does not wait for the child it killed. *)
KillAndGo ==
    /\ app = "kill"
    /\ scheduler' = IF scheduler = "running" THEN "killed" ELSE scheduler
    /\ app' = "returned"
    /\ UNCHANGED <<autoReaped, executor, timer, verdict>>

(* The result of kill is not looked at. *)
Kill ==
    /\ app = "kill"
    /\ scheduler' = IF scheduler = "running" THEN "killed" ELSE scheduler
    /\ app' = "wait"
    /\ UNCHANGED <<autoReaped, executor, timer, verdict>>

(* wait blocks until the child has ended; neither is its result. *)
Wait ==
    /\ app = "wait" /\ scheduler \in {"exited", "reaped", "gone"}
    /\ scheduler' = IF scheduler = "exited" THEN "reaped" ELSE scheduler
    /\ app' = "returned"
    /\ UNCHANGED <<autoReaped, executor, timer, verdict>>

AppNext ==
    \/ SchedulerExits \/ SchedulerDies \/ ExecutorEnds \/ TimerFires \/ Unwind
    \/ Spawn \/ SpawnFails \/ TakeExecutor \/ WatchScheduler \/ Kill \/ Wait

(* The runtime polls a task that can go on, timers fire, killed processes  *)
(* end; the scheduler and the executor owe nothing.                        *)
AppFairness ==
    /\ WF_appVars(SchedulerDies) /\ WF_appVars(TimerFires)
    /\ WF_appVars(TakeExecutor) /\ WF_appVars(WatchScheduler)
    /\ WF_appVars(Kill) /\ WF_appVars(Wait)

AppSpec == AppInit /\ [][AppNext]_appVars /\ AppFairness

-----------------------------------------------------------------------------
(* Properties *)

(* When run returns, the child it started has ended and been waited for,   *)
(* whichever branch was first and whatever happened while it was killed;   *)
(* Ok is the executor's own, and an error blames the scheduler only if it  *)
(* ended before anybody killed it, while no result was taken.              *)
NoChildLeftBehind ==
    /\ app = "returned" => scheduler = IF verdict = "not_started" THEN "unborn"
                                       ELSE IF autoReaped THEN "gone" ELSE "reaped"
    /\ verdict \in {"ok", "err"} => executor = verdict
    /\ verdict = "scheduler_exited" => scheduler = "reaped" /\ ~autoReaped
    /\ verdict = "poll_failed" => scheduler = "gone" /\ autoReaped

(* Once the scheduler or the executor has ended, run returns (or is        *)
(* unwound), even if the other never ends.                                 *)
AppReturns ==
    (app = "select" /\ (scheduler \in {"exited", "gone"} \/ executor \in {"ok", "err"}))
        ~> app \in {"returned", "unwound"}
=============================================================================
