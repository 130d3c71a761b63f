-------------------------- MODULE CancellationToken --------------------------
(***************************************************************************)
(* The shared cancellation token of crates/pipeline/src/bounded.rs: an     *)
(* atomic flag, and a registry of the budgeted transports that must be     *)
(* woken up when the flag is set. Several pipeline runs share one token;   *)
(* several threads may cancel it. The flag and the registry are separate,  *)
(* and no lock is held across both, so a registration and a cancellation   *)
(* can pass each other at every step.                                      *)
(***************************************************************************)
CONSTANTS
    Runs,         \* the budgeted pipeline runs that use the token
    Cancellers    \* the threads that call cancel()

VARIABLES
    flag,         \* CancellationToken::cancelled
    registry,     \* CancellationToken::transports: runs with a weak reference in it
    runPc,        \* where each run is
    closed,       \* the runs whose Control::cancel has been called
    cancelPc,     \* where each cancel() call is
    visit         \* the controls a cancel() call has upgraded and not yet cancelled

tokenVars == <<flag, registry, runPc, closed, cancelPc, visit>>
flagAndRegistry == <<flag, registry>>
cancelVars == <<cancelPc, visit>>

-----------------------------------------------------------------------------

\* Weak::upgrade succeeds: the run, or a cancel() call, still owns the control.
Live(r) ==
    \/ runPc[r] \in {"created", "pushed", "running"}
    \/ \E c \in Cancellers : r \in visit[c]

\* The entries Vec::retain keeps.
RetainedAll == registry
Retained == {r \in registry : Live(r)}

TokenInit ==
    /\ flag = FALSE /\ registry = {}
    /\ runPc = [r \in Runs |-> "start"] /\ closed = {}
    /\ cancelPc = [c \in Cancellers |-> "idle"]
    /\ visit = [c \in Cancellers |-> {}]

-----------------------------------------------------------------------------
(* A run: run_bounded_pipeline up to the end of register, and its end.      *)

MoveRun(r, from, to) == runPc[r] = from /\ runPc' = [runPc EXCEPT ![r] = to]

\* The check at the top of run_bounded_pipeline.
Refuse(r) ==
    /\ flag /\ MoveRun(r, "start", "finished")
    /\ UNCHANGED <<flagAndRegistry, closed, cancelVars>>

\* transport::channel creates the control.
Create(r) ==
    /\ ~flag /\ MoveRun(r, "start", "created")
    /\ UNCHANGED <<flagAndRegistry, closed, cancelVars>>

\* register, under the registry lock.
Push(r) ==
    /\ MoveRun(r, "created", "pushed")
    /\ registry' = Retained \cup {r}
    /\ UNCHANGED <<flag, closed, cancelVars>>

\* register, after the registry lock: the second look at the flag.
CheckNothing(r) ==
    /\ MoveRun(r, "pushed", "running")
    /\ UNCHANGED <<flagAndRegistry, closed, cancelVars>>
Check(r) ==
    /\ MoveRun(r, "pushed", "running")
    /\ closed' = IF flag THEN closed \cup {r} ELSE closed
    /\ UNCHANGED <<flagAndRegistry, cancelVars>>

\* The run returns and drops its references to the control; its weak
\* reference stays in the registry.
Finish(r) ==
    /\ MoveRun(r, "running", "finished")
    /\ UNCHANGED <<flagAndRegistry, closed, cancelVars>>

RunStep(r) == Refuse(r) \/ Create(r) \/ Push(r) \/ Check(r)

-----------------------------------------------------------------------------
(* cancel()                                                                 *)

MoveCancel(c, from, to) == cancelPc[c] = from /\ cancelPc' = [cancelPc EXCEPT ![c] = to]

SetFlag(c) ==
    /\ MoveCancel(c, "idle", "drain")
    /\ flag' = TRUE
    /\ UNCHANGED <<registry, runPc, closed, visit>>

\* Under the registry lock: take every entry, keep those that can be upgraded.
Drain(c) ==
    /\ MoveCancel(c, "drain", "visit")
    /\ visit' = [visit EXCEPT ![c] = Retained]
    /\ registry' = {}
    /\ UNCHANGED <<flag, runPc, closed>>

\* Control::cancel on one upgraded control, outside the registry lock.
Visit(c) ==
    /\ cancelPc[c] = "visit"
    /\ \E r \in visit[c] :
          closed' = closed \cup {r} /\ visit' = [visit EXCEPT ![c] = @ \ {r}]
    /\ UNCHANGED <<flagAndRegistry, runPc, cancelPc>>

Return(c) ==
    /\ visit[c] = {} /\ MoveCancel(c, "visit", "done")
    /\ UNCHANGED <<flagAndRegistry, runPc, closed, visit>>

CancelGoesOn(c) == Drain(c) \/ Visit(c) \/ Return(c)

-----------------------------------------------------------------------------

AllDone ==
    /\ \A r \in Runs : runPc[r] = "finished"
    /\ \A c \in Cancellers : cancelPc[c] = "done"

TokenNext ==
    \/ \E r \in Runs : RunStep(r) \/ Finish(r)
    \/ \E c \in Cancellers : SetFlag(c) \/ CancelGoesOn(c)
    \/ AllDone /\ UNCHANGED tokenVars

\* A call that has begun goes on: register and cancel never wait for anything
\* but a short critical section. Nobody has to cancel, and no run has to end.
TokenFairness ==
    /\ \A r \in Runs : WF_tokenVars(Push(r) \/ Check(r))
    /\ \A c \in Cancellers : WF_tokenVars(CancelGoesOn(c))

TokenSpec == TokenInit /\ [][TokenNext]_tokenVars
TokenFairSpec == TokenSpec /\ TokenFairness

-----------------------------------------------------------------------------
(* Properties *)

\* The types; a call that has returned has no control left to cancel, and only
\* a call that has set the flag looks at the registry.
TokenTypeOK ==
    /\ flag \in BOOLEAN
    /\ registry \subseteq Runs /\ closed \subseteq Runs
    /\ runPc \in [Runs -> {"start", "created", "pushed", "running", "finished"}]
    /\ cancelPc \in [Cancellers -> {"idle", "drain", "visit", "done"}]
    /\ visit \in [Cancellers -> SUBSET Runs]
    /\ \A c \in Cancellers :
          (visit[c] # {} => cancelPc[c] = "visit") /\ (cancelPc[c] # "idle" => flag)

\* No run is missed: once the token is cancelled, a run whose register call has
\* returned is closed, or some cancel() call in progress still has it to do.
\* (A cancel() call may return while another one has yet to close the runs it
\* drained: only then is a live run of a cancelled token still open.)
NoRunMissed ==
    \A r \in Runs : flag /\ runPc[r] = "running" /\ r \notin closed =>
        \E c \in Cancellers :
            \/ cancelPc[c] = "drain" /\ r \in registry
            \/ cancelPc[c] = "visit" /\ r \in visit[c]

\* Registering prunes: the registry of a long-lived token does not keep the
\* runs that have ended.
RegistryPruned ==
    [][\A r \in registry' \ registry : \A other \in registry' : Live(other)']_tokenVars

\* Every run that uses a cancelled token is closed, or ends by itself.
EveryRunHears ==
    \A r \in Runs : flag /\ runPc[r] \in {"created", "pushed", "running"}
        ~> r \in closed \/ runPc[r] = "finished"
\* The registry of a token over its life: it forgets the runs that have ended,
\* and none that has yet to hear of a cancellation.
RegistryServesRuns == RegistryPruned /\ EveryRunHears
=============================================================================
