---------------------------- MODULE AgentDaemon ----------------------------
(***************************************************************************)
(* The agent's process: "agent service" (cmd/service.go), the manager of   *)
(* its runnables (pkg/manager/manager.go) and the two that are started     *)
(* first, the embedded etcd and the API server (pkg/apiserver).  systemd   *)
(* runs the process again when it has exited.                              *)
(*                                                                         *)
(* Every runnable is a goroutine; it reports its error on errChan, which   *)
(* has no buffer, so it waits there for the manager to take it.  The two   *)
(* contexts are modelled by whether they are cancelled.                    *)
(***************************************************************************)
EXTENDS Naturals, Sequences

CONSTANT MaxEvents      \* bound on failures

VARIABLES
    pc,             \* where the process is
    grace,          \* ShutdownGracePeriod is not zero
    signal,         \* the process has been told to stop: ctx is done
    run,            \* where every runnable is
    ready,          \* the main runnables whose ReadyNotify channel is closed
    awaited,        \* the main runnable that Start waits for
    cancelled,      \* the contexts that are cancelled, apart from ctx
    armed,          \* the goroutine that cancels mainCtx is there
    events          \* observer: failures so far

vars == <<pc, grace, signal, run, ready, awaited, cancelled, armed, events>>

-----------------------------------------------------------------------------

\* Add: those that have ReadyNotify are main.
Main == <<"etcd", "server">>
MainSet == {"etcd", "server"}
Regular == {"controllers"}
Runnables == MainSet \cup Regular

\* "sending": Start has returned an error, which nobody has received yet.
RunStates == {"new", "running", "sending", "ended"}

\* "waiting": in waitForRunnableToEnd.
Places == {"down", "starting", "running", "waiting"}

\* mainCtx; internalCtx is derived from ctx.
Cancelled(r) ==
    IF r \in MainSet THEN "main" \in cancelled ELSE signal \/ "internal" \in cancelled

Event == events < MaxEvents /\ events' = events + 1

-----------------------------------------------------------------------------
(* The runnables *)

\* EtcdServer.Start and readyHook.
BecomeReady(r) ==
    /\ r \in MainSet \ ready /\ run[r] = "running" /\ ~Cancelled(r)
    /\ ready' = ready \cup {r}
    /\ UNCHANGED <<pc, grace, signal, run, awaited, cancelled, armed, events>>

\* StartEtcd, InstallAPIs or Run fail, or a controller's set-up or run does.  What
\* becomes of etcd later is not reported to anyone.
Fail(r) ==
    /\ run[r] = "running"
    /\ r = "etcd" => r \notin ready
    /\ Event
    /\ run' = [run EXCEPT ![r] = "sending"]
    /\ UNCHANGED <<pc, grace, signal, ready, awaited, cancelled, armed>>

\* Start returns when its context is done.
End(r) ==
    /\ run[r] = "running" /\ Cancelled(r)
    /\ run' = [run EXCEPT ![r] = "ended"]
    /\ UNCHANGED <<pc, grace, signal, ready, awaited, cancelled, armed, events>>

-----------------------------------------------------------------------------
(* Manager.Start *)

StartRunnable(rs) == run' = [r \in Runnables |-> IF r \in rs THEN "running" ELSE run[r]]

\* runServiceCmd, and the main runnables are started.
StartMain ==
    /\ pc = "down" /\ ~signal
    /\ pc' = "starting"
    /\ StartRunnable(MainSet)
    /\ awaited' = 1
    /\ UNCHANGED <<grace, signal, ready, cancelled, armed, events>>

\* The configuration cannot be loaded or a component cannot be made; systemd waits.
LoadFails ==
    /\ pc = "down" /\ ~signal
    /\ Event
    /\ UNCHANGED <<pc, grace, signal, run, ready, awaited, cancelled, armed>>

\* ctx is not looked at while the main runnables start.
AwaitReady ==
    /\ pc = "starting" /\ awaited <= Len(Main)
    /\ Main[awaited] \in ready
    /\ awaited' = awaited + 1
    /\ UNCHANGED <<pc, grace, signal, run, ready, cancelled, armed, events>>

\* The deferred calls: internalCancel, then waitForRunnableToEnd.
Return ==
    /\ pc' = "waiting"
    /\ cancelled' = cancelled \cup {"internal"}

AwaitError(r) ==
    /\ pc = "starting" /\ awaited <= Len(Main)
    /\ run[r] = "sending"
    /\ run' = [run EXCEPT ![r] = "ended"]
    /\ Return
    /\ UNCHANGED <<grace, signal, ready, awaited, armed, events>>

StartRegular ==
    /\ pc = "starting" /\ awaited > Len(Main)
    /\ pc' = "running"
    /\ StartRunnable(Regular)
    /\ armed' = TRUE
    /\ UNCHANGED <<grace, signal, ready, awaited, cancelled, events>>

SelectDone ==
    /\ pc = "running" /\ signal
    /\ Return
    /\ UNCHANGED <<grace, signal, run, ready, awaited, armed, events>>

SelectError(r) ==
    /\ pc = "running"
    /\ run[r] = "sending"
    /\ run' = [run EXCEPT ![r] = "ended"]
    /\ Return
    /\ UNCHANGED <<grace, signal, ready, awaited, armed, events>>

\* The goroutine that waits for the regular runnables.
CancelMain_AtOnce ==
    /\ armed /\ "main" \notin cancelled
    /\ \A r \in Regular : Cancelled(r)
    /\ cancelled' = cancelled \cup {"main"}
    /\ UNCHANGED <<pc, grace, signal, run, ready, awaited, armed, events>>
CancelMain ==
    /\ armed /\ "main" \notin cancelled
    /\ \A r \in Regular : run[r] = "ended"
    /\ cancelled' = cancelled \cup {"main"}
    /\ UNCHANGED <<pc, grace, signal, run, ready, awaited, armed, events>>

-----------------------------------------------------------------------------
(* waitForRunnableToEnd *)

Drain_Never(r) ==
    /\ FALSE
    /\ UNCHANGED vars
Drain(r) ==
    /\ pc = "waiting" /\ run[r] = "sending"
    /\ run' = [run EXCEPT ![r] = "ended"]
    /\ UNCHANGED <<pc, grace, signal, ready, awaited, cancelled, armed, events>>

Idle == [r \in Runnables |-> "new"]

\* Start returns and the process exits: nothing of it is left.
Exit ==
    /\ pc' = "down"
    /\ run' = Idle
    /\ ready' = {}
    /\ awaited' = 1
    /\ cancelled' = {}
    /\ armed' = FALSE
    /\ UNCHANGED <<grace, signal, events>>

AllEnded ==
    /\ pc = "waiting"
    /\ \A r \in Runnables : run[r] \in {"new", "ended"}
    /\ Exit

\* With a grace period of zero this never happens.
GraceExpires ==
    /\ pc = "waiting" /\ grace
    /\ Exit

-----------------------------------------------------------------------------

\* systemd, or the uninstallation, stops the service.
Terminate ==
    /\ ~signal
    /\ signal' = TRUE
    /\ UNCHANGED <<pc, grace, run, ready, awaited, cancelled, armed, events>>

Init ==
    /\ pc = "down"
    /\ grace \in BOOLEAN
    /\ signal = FALSE
    /\ run = Idle
    /\ ready = {}
    /\ awaited = 1
    /\ cancelled = {}
    /\ armed = FALSE
    /\ events = 0

Next ==
    \/ StartMain \/ LoadFails \/ AwaitReady \/ StartRegular \/ SelectDone
    \/ CancelMain \/ AllEnded \/ GraceExpires \/ Terminate
    \/ \E r \in Runnables :
        \/ BecomeReady(r) \/ Fail(r) \/ End(r)
        \/ AwaitError(r) \/ SelectError(r) \/ Drain(r)

\* The goroutines run, the runnables keep their contract, and systemd restarts.
Goroutines ==
    \/ StartMain \/ AwaitReady \/ StartRegular \/ SelectDone \/ CancelMain \/ AllEnded
    \/ GraceExpires
    \/ \E r \in Runnables :
        BecomeReady(r) \/ End(r) \/ AwaitError(r) \/ SelectError(r) \/ Drain(r)

Fairness == WF_vars(Goroutines)

Spec == Init /\ [][Next]_vars /\ Fairness

-----------------------------------------------------------------------------
(* Properties *)

TypeOK ==
    /\ pc \in Places /\ run \in [Runnables -> RunStates]
    /\ ready \subseteq MainSet /\ cancelled \subseteq {"main", "internal"}

\* The components of mainRunnables "run first and exit last": no controller runs before
\* etcd and the server were ready, and neither is told to stop while one still runs.
FirstAndLast ==
    \A r \in Regular :
        run[r] \in {"running", "sending"} => ready = MainSet /\ "main" \notin cancelled

\* Start failed while the main runnables were starting: mainCtx stays open until it
\* returns, and it returns when they have ended.
Stuck == pc = "waiting" /\ ~armed /\ ~grace

\* The process runs, or it has stopped as it was told to, or it is stuck.
Steady ==
    IF signal THEN pc = "down" ELSE pc = "running" /\ run["controllers"] = "running"

Recovers == Stuck \/ Steady
=============================================================================
